---------------------------- MODULE Spec2Model ----------------------------
(***************************************************************************)
(* A model of schemas/gen.py, the schema-driven generator of Go accessors. *)
(*                                                                         *)
(* Strings whose characters the code inspects (type names, Go types,       *)
(* directory and file names, urls) are sequences of one-character strings. *)
(* A json document is a record of the keys the generator reads.            *)
(***************************************************************************)
EXTENDS Naturals, Sequences, FiniteSets, TLC

VARIABLES
    package,      \* the package's schema tree: version directory -> os.listdir order
    file,         \* the go source file: a sequence of lines
    struct,       \* find_schema's argument
    origin,       \* the stored schema file whose type name struct is (when it is one)
    found,        \* what find_schema(package, struct) did
    struct_name,  \* find_struct's argument
    scanned,      \* what find_struct(file, struct_name) did
    schema,       \* the Schema of the struct whose getters are generated
    spec,         \* its plain fields: a list of FieldSpec <<field, type, tag>>
    field,        \* the FieldSpec handed to get_defaulted_type
    resolved,     \* what get_defaulted_type(schema, tag, type) did
    getters,      \* what go_getters(struct, schema, spec) did
    union_types,  \* get_union_common_members' argument: the variants' type names
    common,       \* what get_union_common_members(file, package, union_types) did
    union_spec,   \* the union fields of a struct: a list of UnionSpec <<field, type>>
    emitted,      \* what go_unions(struct, package, file, schema, union_spec) did
    value,        \* a Go value of the union struct: the union fields that are not nil
    outcome,      \* what the emitted GetUnionMember() did on value
    files,        \* read_schemas' argument: a list of paths <<package, directory, name>>
    schemas,      \* what read_schemas(files) did
    module,       \* what gen_go_schemas_package(schemas) returned
    args,         \* the command line: generator, line (GOLINE), output
    pc,           \* where the run of __main__ is
    rendered,     \* the destination and lines the generator returned
    raised,       \* the exception that left the generator
    disk,         \* the files generated so far: name -> content
    stdout,       \* the texts written to sys.stdout
    stderr,       \* the messages on sys.stderr
    writes,       \* how often a destination was opened for writing
    exit_status,  \* how the process ended
    runs          \* the runs completed before this one

repoVars == <<package, file>>
namingVars == <<struct, origin, found>>
structVars == <<struct_name, scanned>>
getterVars == <<schema, spec, field, resolved, getters>>
commonVars == <<union_types, common>>
unionVars == <<union_spec, emitted, value, outcome>>
readVars == <<files, schemas, module>>
runVars == <<args, pc, rendered, raised, disk, stdout, stderr, writes, exit_status, runs>>
\* What no stage of a generator assigns.
fixedVars ==
    <<repoVars, struct, origin, schema, spec, field, resolved, commonVars, union_spec,
      value, outcome, module, args, disk, stdout, stderr, writes, exit_status, runs>>
vars ==
    <<repoVars, namingVars, structVars, getterVars, commonVars, unionVars, readVars, runVars>>

\* The value of a result variable before its operation has run.
Pending == [err |-> "pending"]

-----------------------------------------------------------------------------
(* Strings *)

Digits == {"0", "1", "2", "3", "4", "5", "6", "7", "8", "9"}

\* The letters of the model's alphabet that have two cases: <<lower, upper>>.
CasePairs ==
    {<<"v", "V">>, <<"f", "F">>, <<"g", "G">>, <<"x", "X">>, <<"p", "P">>, <<"q", "Q">>,
     <<"u", "U">>, <<"w", "W">>, <<"o", "O">>, <<"t", "T">>, <<"m", "M">>, <<"a", "A">>,
     <<"b", "B">>}

\* c.islower() and c.isupper()
islower(c) == \E p \in CasePairs : p[1] = c
isupper(c) == \E p \in CasePairs : p[2] = c

char_upper(c) ==
    IF \E p \in CasePairs : p[1] = c
    THEN (CHOOSE p \in CasePairs : p[1] = c)[2]
    ELSE c

char_lower(c) ==
    IF \E p \in CasePairs : p[2] = c
    THEN (CHOOSE p \in CasePairs : p[2] = c)[1]
    ELSE c

\* str.upper() and str.lower()
upper(s) == [i \in 1..Len(s) |-> char_upper(s[i])]
lower(s) == [i \in 1..Len(s) |-> char_lower(s[i])]

\* s.startswith(prefix), s.endswith(suffix)
startswith(s, prefix) ==
    /\ Len(prefix) <= Len(s)
    /\ \A i \in 1..Len(prefix) : s[i] = prefix[i]

endswith(s, suffix) ==
    /\ Len(suffix) <= Len(s)
    /\ \A i \in 1..Len(suffix) : s[Len(s) - Len(suffix) + i] = suffix[i]

\* s[-2:]: the last two characters, or all of s when it is shorter.
last_two(s) == IF Len(s) <= 2 THEN s ELSE SubSeq(s, Len(s) - 1, Len(s))

DotJson == <<".", "j", "s", "o", "n">>

\* The characters of the model in code point order, for str < str.
CodePoints ==
    <<"*", ".", "/", "0", "1", "2", "A", "B", "F", "G", "M", "O", "P", "Q", "R",
      "S", "T", "U", "V", "W", "_", "a", "b", "c", "e", "f", "g", "i", "j", "n",
      "o", "p", "s", "t", "v", "w", "x", "z">>
ord(c) == CHOOSE i \in 1..Len(CodePoints) : CodePoints[i] = c

RECURSIVE str_less(_, _)
str_less(a, b) ==
    IF b = <<>> THEN FALSE
    ELSE IF a = <<>> THEN TRUE
    ELSE IF Head(a) # Head(b) THEN ord(Head(a)) < ord(Head(b))
    ELSE str_less(Tail(a), Tail(b))

\* os.path.join of the segments of a path
path_text(path) ==
    IF Len(path) = 3 THEN path[1] \o <<"/">> \o path[2] \o <<"/">> \o path[3]
    ELSE IF Len(path) = 2 THEN path[1] \o <<"/">> \o path[2]
    ELSE path[1]

\* ALL_PKGS[0]
PackageName == <<"e", "x", "p", "c", "o", "n", "f">>

-----------------------------------------------------------------------------
(* Schema *)

\* A raised exception, or a returned value.
Raise(exception, msg) == [err |-> exception, msg |-> msg]
Return(v) == [err |-> "none", value |-> v]

\* Schema.version(): os.path.basename(os.path.dirname(url)); a url is the
\* sequence of its path segments below URLBASE.
version(url) == url[Len(url) - 1]

\* Schema.__init__
SchemaNoUpper(url, text) ==
    IF text.json # "ok"
    THEN Raise("ValueError", "is not a valid json file")
    ELSE Return([url |-> url, text |-> text, schema |-> text,
                 golang_title |-> text.title \o version(url)])

Schema(url, text) ==
    IF text.json # "ok"
    THEN Raise("ValueError", "is not a valid json file")
    ELSE Return([url |-> url, text |-> text, schema |-> text,
                 golang_title |-> text.title \o upper(version(url))])

-----------------------------------------------------------------------------
(* find_schema *)

\* re.match(".*V[0-9]+", struct): the pattern is anchored at the start only.
version_regex(s) ==
    \E i \in 1..Len(s) : s[i] = "V" /\ i < Len(s) /\ s[i + 1] \in Digits

\* The loop over os.listdir(dir), line 217-228.
RECURSIVE scan_listing(_, _, _, _)
scan_listing(listing, pkg, dir, name) ==
    IF listing = <<>>
    THEN Raise("AssertionError", "failed to find schema")
    ELSE LET f == Head(listing)
             made == Schema(<<pkg, dir, f.name>>, f.text)
         IN  IF ~endswith(f.name, DotJson)
             THEN scan_listing(Tail(listing), pkg, dir, name)
             ELSE IF made.err # "none"
             THEN made
             ELSE IF made.value.golang_title # name
             THEN scan_listing(Tail(listing), pkg, dir, name)
             ELSE made

find_schema(tree, name) ==
    IF ~version_regex(name)
    THEN Raise("AssertionError", "is not a valid schema type name")
    ELSE LET dir == lower(last_two(name))
         IN  IF dir \notin DOMAIN tree
             THEN Raise("FileNotFoundError", "os.listdir")
             ELSE scan_listing(tree[dir], PackageName, dir, name)

-----------------------------------------------------------------------------
(* find_struct *)

\* A line of the go file, as far as find_struct reads it: its indentation,
\* what its text starts with ("type": `type <name> struct`, "}", "//", "field":
\* `<name> <type>` and possibly a tag, "": nothing), and the tag's first key.
Line(indent, head, name, type, tagkey, tag) ==
    [indent |-> indent, head |-> head, name |-> name, type |-> type,
     tagkey |-> tagkey, tag |-> tag]

\* line.startswith(f"type {struct_name} struct")
opens_struct(line, name) ==
    line.indent = "" /\ line.head = "type" /\ line.name = name

\* line.strip() == "}" and line.strip() == ""
is_close(line) == line.head = "}"
is_blank(line) == line.head = ""

\* line.startswith("\t//")
is_comment(line) == line.indent = "\t" /\ line.head = "//"

\* re.match("\t([\\S]+)\\s+([\\S]+)\\s+`union.*", line)
union_match(line) ==
    line.indent = "\t" /\ line.head = "field" /\ line.tagkey = "union"

\* re.match('\t([\\S]+)\\s+([\\S]+)\\s+`json:"([^,"]+)', line)
json_match(line) ==
    line.indent = "\t" /\ line.head = "field" /\ line.tagkey = "json"

\* The loop of find_struct from line i on, in state st ("pre" or "fields").
RECURSIVE scan_lines(_, _, _, _, _, _)
scan_lines(lines, i, name, st, plain, unions) ==
    IF i > Len(lines)
    THEN Raise("AssertionError", "failed to find struct definition")
    ELSE LET line == lines[i] IN
         IF st = "pre"
         THEN scan_lines(lines, i + 1, name,
                         IF opens_struct(line, name) THEN "fields" ELSE "pre",
                         plain, unions)
         ELSE IF is_close(line)
         THEN Return([field_spec |-> plain, union_spec |-> unions])
         ELSE IF is_blank(line) \/ is_comment(line)
         THEN scan_lines(lines, i + 1, name, st, plain, unions)
         ELSE IF union_match(line)
         THEN scan_lines(lines, i + 1, name, st, plain,
                         Append(unions, <<line.name, line.type>>))
         ELSE IF json_match(line)
         THEN scan_lines(lines, i + 1, name, st,
                         Append(plain, <<line.name, line.type, line.tag>>),
                         unions)
         ELSE Raise("AssertionError", "unsure how to handle line")

\* find_struct entered at any `type ... struct` line.
find_struct_any_type(lines, name) ==
    LET starts == {i \in 1..Len(lines) : lines[i].head = "type"}
    IN  IF starts = {}
        THEN Raise("AssertionError", "failed to find struct definition")
        ELSE scan_lines(lines, (CHOOSE i \in starts : \A j \in starts : i <= j) + 1,
                        name, "fields", <<>>, <<>>)

find_struct(lines, name) == scan_lines(lines, 1, name, "pre", <<>>, <<>>)

-----------------------------------------------------------------------------
(* get_defaulted_type and go_getters *)

\* Python's None: dict.get of a missing key, and json's null.
None == "None"

\* {}: a property that is an empty object.
EmptyObject == [json |-> "object", default |-> "absent"]

\* prop.get("default"): None when the key is missing or its value is null.
get_default(prop) ==
    IF prop.default \in {"absent", "null"} THEN None ELSE prop.default

\* schema.get(key, []) for the lists `required` and `eventuallyRequired`.
get_list(entry) == IF entry.present THEN entry.items ELSE <<>>

\* a or b on two lists: a unless it is empty.
list_or(a, b) == IF a # <<>> THEN a ELSE b

\* get_defaulted_type without the double pointer check of line 252.
get_defaulted_type_any_depth(sch, tag, type) ==
    IF ~sch.schema.properties.present
    THEN Raise("KeyError", "properties")
    ELSE LET props == sch.schema.properties.map
             got == IF tag \in DOMAIN props THEN props[tag] ELSE EmptyObject
             prop == IF got.json = "true" THEN EmptyObject ELSE got
             default == get_default(prop)
             required == list_or(get_list(sch.schema.required),
                                 get_list(sch.schema.eventuallyRequired))
         IN  IF default # None
             THEN IF ~startswith(type, <<"*">>)
                  THEN Raise("AssertionError", "must be a pointer since it can be defaulted")
                  ELSE Return([type |-> Tail(type), default |-> default,
                               required |-> required])
             ELSE Return([type |-> type, default |-> default, required |-> required])

get_defaulted_type(sch, tag, type) ==
    IF ~sch.schema.properties.present
    THEN Raise("KeyError", "properties")
    ELSE LET props == sch.schema.properties.map
             got == IF tag \in DOMAIN props THEN props[tag] ELSE EmptyObject
             prop == IF got.json = "true" THEN EmptyObject ELSE got
             default == get_default(prop)
             required == list_or(get_list(sch.schema.required),
                                 get_list(sch.schema.eventuallyRequired))
         IN  IF default # None
             THEN IF ~startswith(type, <<"*">>)
                  THEN Raise("AssertionError", "must be a pointer since it can be defaulted")
                  ELSE IF startswith(type, <<"*", "*">>)
                  THEN Raise("AssertionError", "must not be a double pointer")
                  ELSE Return([type |-> Tail(type), default |-> default,
                               required |-> required])
             ELSE Return([type |-> type, default |-> default, required |-> required])

\* An emitted Go method: its name, its return type and its statements.
GoFunc(name, returns, body) == [name |-> name, returns |-> returns, body |-> body]

\* An emitted Go statement about field f of the receiver x.
Stmt(op, f, expr) == [op |-> op, field |-> f, expr |-> expr]

Get == <<"G", "e", "t">>

\* The getter of a field without a default (lines 271-274) ...
transparent_getter(f, type) ==
    GoFunc(Get \o f, type, <<Stmt("return", f, "x.field")>>)

\* ... and of a field with one (lines 276-284).
defaulted_getter(f, type) ==
    GoFunc(Get \o f, type,
           <<Stmt("if x.field == nil panic", f, "You must call WithDefaults"),
             Stmt("return", f, "*x.field")>>)

\* The loop of go_getters over spec from field i on.
RECURSIVE getters_from(_, _, _, _)
getters_from(sch, fields, i, lines) ==
    IF i > Len(fields)
    THEN Return(lines)
    ELSE LET f == fields[i]
             r == get_defaulted_type(sch, f[3], f[2])
         IN  IF r.err # "none"
             THEN r
             ELSE getters_from(sch, fields, i + 1,
                      Append(lines,
                             IF r.value.default = None
                             THEN transparent_getter(f[1], f[2])
                             ELSE defaulted_getter(f[1], r.value.type)))

go_getters(sch, fields) ==
    IF Len(fields) < 1 THEN Return(<<>>) ELSE getters_from(sch, fields, 1, <<>>)

-----------------------------------------------------------------------------
(* get_union_common_members and go_unions *)

RECURSIVE sorted_items(_)
\* sorted(d.items()) of a dict d: its <<key, value>> pairs by key.
sorted_items(d) ==
    IF DOMAIN d = {} THEN <<>>
    ELSE LET k == CHOOSE k \in DOMAIN d : \A j \in DOMAIN d : j = k \/ str_less(k, j)
         IN  <<<<k, d[k]>>>> \o sorted_items([j \in DOMAIN d \ {k} |-> d[j]])

RECURSIVE lstrip_star(_)
\* type.lstrip("*")
lstrip_star(type) ==
    IF type # <<>> /\ Head(type) = "*" THEN lstrip_star(Tail(type)) ELSE type

\* The loops over spec that fill a variant's members, lines 305-308.
RECURSIVE members_from(_, _, _, _)
members_from(sch, fields, i, members) ==
    IF i > Len(fields)
    THEN Return(members)
    ELSE LET f == fields[i]
             r == get_defaulted_type(sch, f[3], f[2])
         IN  IF r.err # "none"
             THEN r
             ELSE members_from(sch, fields, i + 1, (f[1] :> r.value.type) @@ members)

RECURSIVE members_declared_from(_, _, _, _)
members_declared_from(sch, fields, i, members) ==
    IF i > Len(fields)
    THEN Return(members)
    ELSE LET f == fields[i]
             r == get_defaulted_type(sch, f[3], f[2])
         IN  IF r.err # "none"
             THEN r
             ELSE members_declared_from(sch, fields, i + 1, (f[1] :> f[2]) @@ members)

\* The loop over union_types, lines 298-309.
RECURSIVE per_struct_from(_, _, _, _, _)
per_struct_from(lines, tree, types, i, per_struct_members) ==
    IF i > Len(types)
    THEN Return(per_struct_members)
    ELSE LET sch == find_schema(tree, types[i])
             got == find_struct(lines, types[i])
             members == members_from(sch.value, got.value.field_spec, 1, <<>>)
         IN  IF sch.err # "none" THEN sch
             ELSE IF got.err # "none" THEN got
             ELSE IF Len(got.value.union_spec) > 0
             THEN Raise("AssertionError", "detected nested union")
             ELSE IF members.err # "none" THEN members
             ELSE per_struct_from(lines, tree, types, i + 1,
                                  Append(per_struct_members, members.value))

\* Lines 311-327, on the members of every variant.
common_of(per_struct_members) ==
    IF per_struct_members = <<>>
    THEN Raise("IndexError", "list index out of range")
    ELSE LET n == Len(per_struct_members)
             common_fields ==
                 {f \in DOMAIN per_struct_members[1] :
                     \A i \in 2..n : f \in DOMAIN per_struct_members[i]}
             field_types(f) == {per_struct_members[i][f] : i \in 1..n}
         IN  IF \E f \in common_fields : Cardinality(field_types(f)) # 1
             THEN Raise("AssertionError", "has multiple types among union members")
             ELSE Return(sorted_items([f \in common_fields |-> per_struct_members[1][f]]))

\* get_union_common_members keeping the declared type of every member.
get_union_common_members_declared(lines, tree, types) ==
    LET declared(i) ==
            members_declared_from(find_schema(tree, types[i]).value,
                                  find_struct(lines, types[i]).value.field_spec,
                                  1, <<>>).value
        all == per_struct_from(lines, tree, types, 1, <<>>)
    IN  IF all.err # "none" THEN all
        ELSE common_of([i \in 1..Len(types) |-> declared(i)])

get_union_common_members(lines, tree, types) ==
    LET all == per_struct_from(lines, tree, types, 1, <<>>)
    IN  IF all.err # "none" THEN all ELSE common_of(all.value)

GetUnionMember == <<"G", "e", "t", "U", "n", "i", "o", "n", "M", "e", "m", "b", "e", "r">>
Interface == <<"i", "n", "t", "e", "r", "f", "a", "c", "e", "{", "}">>
NoUnionMember == Stmt("panic", <<>>, "no union member defined")

\* Lines 339-346: GetUnionMember(), one `if x.field != nil` per union field.
union_member_func(fields) ==
    GoFunc(GetUnionMember, Interface,
           [i \in 1..Len(fields) |-> Stmt("if x.field != nil return", fields[i][1], "nil")]
               \o <<NoUnionMember>>)

\* Lines 353-360: the getter of a member common to all variants.
common_getter(fields, member) ==
    GoFunc(Get \o member[1], member[2],
           [i \in 1..Len(fields) |->
               Stmt("if x.field != nil return", fields[i][1], "x.field.Get()")]
               \o <<NoUnionMember>>)

go_unions(lines, tree, fields) ==
    IF Len(fields) < 1
    THEN Return(<<>>)
    ELSE LET types == [i \in 1..Len(fields) |-> lstrip_star(fields[i][2])]
             common_members == get_union_common_members(lines, tree, types)
         IN  IF common_members.err # "none"
             THEN common_members
             ELSE Return(<<union_member_func(fields)>>
                         \o [i \in 1..Len(common_members.value) |->
                                common_getter(fields, common_members.value[i])])

\* What Go does with an emitted method on a receiver whose fields in set are
\* not nil: the first statement, from statement i on, that returns or panics.
RECURSIVE go_call(_, _, _)
go_call(body, i, set) ==
    IF i > Len(body)
    THEN [kind |-> "falls off", member |-> <<>>, msg |-> ""]
    ELSE LET st == body[i] IN
         IF st.op = "panic"
         THEN [kind |-> "panic", member |-> <<>>, msg |-> st.expr]
         ELSE IF st.op = "if x.field != nil return" /\ st.field \in set
         THEN IF st.expr = "nil"
              THEN [kind |-> "returns nil", member |-> <<>>, msg |-> ""]
              ELSE [kind |-> "returns member", member |-> st.field, msg |-> ""]
         ELSE go_call(body, i + 1, set)

-----------------------------------------------------------------------------
(* list_files, read_schemas and gen_go_schemas_package *)

\* open(file).read() of the file at path <<package, directory, name>>
read_file(tree, path) ==
    LET listing == tree[path[2]]
    IN  listing[CHOOSE i \in 1..Len(listing) : listing[i].name = path[3]].text

RECURSIVE sorted_by(_, _)
\* sorted(list, key=...): a stable sort, the least key first. keys[i] is the
\* string list[i] is compared by.
sorted_by(list, keys) ==
    IF list = <<>> THEN <<>>
    ELSE LET least == CHOOSE i \in 1..Len(list) :
                          /\ \A j \in 1..Len(list) : ~str_less(keys[j], keys[i])
                          /\ \A j \in 1..(i - 1) : str_less(keys[i], keys[j])
             without(l) == SubSeq(l, 1, least - 1) \o SubSeq(l, least + 1, Len(l))
         IN  <<list[least]>> \o sorted_by(without(list), without(keys))

RECURSIVE seq_of(_)
\* The elements of a finite set as a list, in the order os.walk happens to
\* give them; the sort that follows fixes the order of distinct paths.
seq_of(S) == IF S = {} THEN <<>> ELSE LET x == CHOOSE x \in S : TRUE IN <<x>> \o seq_of(S \ {x})

\* list_files: the .json files below the package directory, sorted by path.
list_files(tree) ==
    LET out == seq_of(UNION {{<<PackageName, d, tree[d][i].name>> :
                                 i \in {k \in 1..Len(tree[d]) : endswith(tree[d][k].name, DotJson)}} :
                             d \in DOMAIN tree})
    IN  sorted_by(out, [i \in 1..Len(out) |-> path_text(out[i])])

\* The loop of read_schemas from file i on.
RECURSIVE read_from(_, _, _, _)
read_from(tree, paths, i, read) ==
    IF i > Len(paths)
    THEN Return(read)
    ELSE LET made == Schema(paths[i], read_file(tree, paths[i]))
         IN  IF made.err # "none"
             THEN made
             ELSE read_from(tree, paths, i + 1, Append(read, made.value))

schema_url(sch) == path_text(sch.url)

\* read_schemas without the sort of line 64.
read_schemas_unsorted(tree, paths) == read_from(tree, paths, 1, <<>>)

read_schemas(tree, paths) ==
    LET read == read_from(tree, paths, 1, <<>>)
    IN  IF read.err # "none" THEN read ELSE Return(sorted_by(read.value, [i \in 1..Len(read.value) |-> schema_url(read.value[i])]))

\* A line of generated text: an f-string and the values it interpolates.
Fmt(text, values) == [fmt |-> text, args |-> values]

RECURSIVE flatten(_)
\* The concatenation of a list of lists of lines.
flatten(lists) == IF lists = <<>> THEN <<>> ELSE Head(lists) \o flatten(Tail(lists))

\* The raw string quotes of the generated Go are written ' here.
gen_go_schemas_package(schs) ==
    LET n == Len(schs)
        title(i) == schs[i].golang_title
    IN  <<Fmt("// Code generated by gen.py. DO NOT EDIT.", <<>>), Fmt("", <<>>),
          Fmt("package schemas", <<>>), Fmt("", <<>>),
          Fmt("import (", <<>>), Fmt("\t\"encoding/json\"", <<>>), Fmt(")", <<>>),
          Fmt("", <<>>), Fmt("var (", <<>>)>>
        \o [i \in 1..n |-> Fmt("\ttext{} = []byte('{}')", <<title(i), schs[i].text>>)]
        \o flatten([i \in 1..n |->
               <<Fmt("\tschema{} interface{}", <<title(i)>>), Fmt("", <<>>)>>])
        \o <<Fmt("\tcachedSchemaMap map[string]interface{}", <<>>), Fmt("", <<>>),
             Fmt("\tcachedSchemaBytesMap map[string][]byte", <<>>), Fmt(")", <<>>),
             Fmt("", <<>>)>>
        \o flatten([i \in 1..n |->
               <<Fmt("func Parsed{}() interface{} {", <<title(i)>>),
                 Fmt("\tif schema{} != nil {", <<title(i)>>),
                 Fmt("\t\treturn schema{}", <<title(i)>>),
                 Fmt("\t}", <<>>),
                 Fmt("\terr := json.Unmarshal(text{}, &schema{})", <<title(i), title(i)>>),
                 Fmt("\tif err != nil {", <<>>),
                 Fmt("\t\tpanic(\"invalid embedded json for {}\")", <<title(i)>>),
                 Fmt("\t}", <<>>),
                 Fmt("\treturn schema{}", <<title(i)>>),
                 Fmt("}", <<>>), Fmt("", <<>>)>>])
        \o <<Fmt("func schemaBytesMap() map[string][]byte {", <<>>),
             Fmt("\tif cachedSchemaBytesMap != nil {", <<>>),
             Fmt("\t\treturn cachedSchemaBytesMap", <<>>),
             Fmt("\t}", <<>>),
             Fmt("\tvar url string", <<>>),
             Fmt("\tcachedSchemaBytesMap = map[string][]byte{}", <<>>)>>
        \o flatten([i \in 1..n |->
               <<Fmt("\turl = \"{}\"", <<schema_url(schs[i])>>),
                 Fmt("\tcachedSchemaBytesMap[url] = text{}", <<title(i)>>)>>])
        \o <<Fmt("\treturn cachedSchemaBytesMap", <<>>), Fmt("}", <<>>)>>

-----------------------------------------------------------------------------
(* gen_go_struct, gen_python, maybe_write_output and the generators' mains *)

RECURSIVE snake_from(_, _)
\* The loop of camel_to_snake from the triple that starts at character i on.
snake_from(name, i) ==
    IF i + 2 > Len(name) THEN <<>>
    ELSE (IF islower(name[i]) /\ isupper(name[i + 1]) THEN <<"_">> ELSE <<>>)
             \o (IF isupper(name[i]) /\ isupper(name[i + 1]) /\ islower(name[i + 2])
                 THEN <<"_">> ELSE <<>>)
             \o <<char_lower(name[i + 1])>>
             \o snake_from(name, i + 1)

camel_to_snake(name) ==
    <<char_lower(name[1])>> \o snake_from(name, 1) \o <<char_lower(name[Len(name)])>>

\* enumerate() counts the lines from 0: line k of the file has lineno k - 1.
next_struct_name(lines, start) ==
    LET later == {k \in 1..Len(lines) :
                     k - 1 > start /\ lines[k].indent = "" /\ lines[k].head = "type"}
    IN  IF later # {}
        THEN Return(lines[CHOOSE k \in later : \A j \in later : k <= j].name)
        ELSE IF lines = <<>>
        THEN Raise("UnboundLocalError", "line")
        ELSE Raise("AssertionError", "did not find struct")

go_helpers(name) ==
    <<Fmt("func ({x} {struct}) WithDefaults() {struct} {", <<name>>),
      Fmt("\treturn schemas.WithDefaults({x}).({struct})", <<name>>),
      Fmt("}", <<>>), Fmt("", <<>>),
      Fmt("func ({x} {struct}) Merge(other {struct}) {struct} {", <<name>>),
      Fmt("\treturn schemas.Merge({x}, other).({struct})", <<name>>),
      Fmt("}", <<>>)>>

go_schema_interface(name, url) ==
    <<Fmt("", <<>>),
      Fmt("func ({x} {struct}) ParsedSchema() interface{} {", <<name>>),
      Fmt("\treturn schemas.Parsed{struct}()", <<name>>),
      Fmt("}", <<>>), Fmt("", <<>>),
      Fmt("func ({x} {struct}) SanityValidator() *jsonschema.Schema {", <<name>>),
      Fmt("\treturn schemas.GetSanityValidator(\"{url}\")", <<url>>),
      Fmt("}", <<>>), Fmt("", <<>>),
      Fmt("func ({x} {struct}) CompletenessValidator() *jsonschema.Schema {", <<name>>),
      Fmt("\treturn schemas.GetCompletenessValidator(\"{url}\")", <<url>>),
      Fmt("}", <<>>)>>

Zgen == <<"z", "g", "e", "n", "_">>
DotGo == <<".", "g", "o">>

\* gen_go_struct without the check of lines 419-420.
check_fields_either(found_struct) == Return(found_struct)

\* if len(field_spec) and len(union_spec): raise ...
check_fields(found_struct) ==
    IF Len(found_struct.field_spec) > 0 /\ Len(found_struct.union_spec) > 0
    THEN Raise("AssertionError", "has both union tags and normal fields")
    ELSE Return(found_struct)

\* What gen_go_struct returns once every part is generated.
go_struct_lines(name, url, imports, getter_lines, union_lines) ==
    [filename |-> Zgen \o camel_to_snake(name) \o DotGo,
     lines |->
         <<Fmt("// Code generated by gen.py. DO NOT EDIT.", <<>>),
           Fmt("", <<>>),
           Fmt("package {package}", <<PackageName>>),
           Fmt("", <<>>),
           Fmt("import (", <<>>),
           Fmt("\t\"github.com/santhosh-tekuri/jsonschema/v2\"", <<>>)>>
         \o [i \in 1..Len(imports) |-> Fmt("\t{imp}", <<imports[i]>>)]
         \o <<Fmt("", <<>>),
              Fmt("\t\"github.com/determined-ai/determined/master/pkg/schemas\"", <<>>),
              Fmt(")", <<>>),
              Fmt("", <<>>)>>
         \o getter_lines
         \o union_lines
         \o go_helpers(name)
         \o go_schema_interface(name, url)]

gen_python(schs) ==
    <<Fmt("# This is a generated file.  Editing it will make you sad.", <<>>),
      Fmt("", <<>>), Fmt("import json", <<>>), Fmt("", <<>>), Fmt("schemas = {", <<>>)>>
        \o flatten([i \in 1..Len(schs) |->
               <<Fmt("    \"{schema.url}\": json.loads(", <<schema_url(schs[i])>>),
                 Fmt("        r\"\"\"\n{schema.text}\n\"\"\"", <<schs[i].text>>),
                 Fmt("    ),", <<>>)>>])
        \o <<Fmt("}", <<>>)>>

\* "\n".join(lines) + "\n": every line, each ended by a newline.
join_lines(lines) == [i \in 1..Len(lines) |-> [line |-> lines[i], end |-> "\n"]]

\* Optional[str]: a destination, or None.
Some(path) == [none |-> FALSE, path |-> path]
NoOutput == [none |-> TRUE]

\* The files and streams a run writes to.
World(files_on_disk, out, opened) ==
    [disk |-> files_on_disk, stdout |-> out, writes |-> opened]

\* maybe_write_output that writes whatever the destination holds.
maybe_write_output_always(lines, output, world) ==
    LET text == join_lines(lines)
    IN  IF output.none
        THEN World(world.disk, Append(world.stdout, text), world.writes)
        ELSE World((output.path :> text) @@ world.disk, world.stdout, world.writes + 1)

maybe_write_output(lines, output, world) ==
    LET text == join_lines(lines)
    IN  IF output.none
        THEN World(world.disk, Append(world.stdout, text), world.writes)
        ELSE IF output.path \in DOMAIN world.disk /\ world.disk[output.path] = text
        THEN world
        ELSE World((output.path :> text) @@ world.disk, world.stdout, world.writes + 1)

-----------------------------------------------------------------------------
(* The inputs of the naming specification *)

\* The longest version number of a version directory, in digits.
MaxVersionDigits == 2
\* The most files os.listdir returns for the directory searched.
MaxListing == 2
\* The longest type name handed to find_schema directly.
MaxNameLen == 3

RECURSIVE Strings(_, _)
\* The strings over alphabet of length 1..n.
Strings(alphabet, n) ==
    IF n = 0 THEN {}
    ELSE LET shorter == Strings(alphabet, n - 1)
         IN  {<<c>> : c \in alphabet} \cup shorter
                 \cup {s \o <<c>> : s \in shorter, c \in alphabet}

VersionDirs == {<<"v">> \o d : d \in Strings({"1", "2"}, MaxVersionDigits)}
Titles == {<<"F">>, <<"G", "V", "1">>}
TypeNames == Strings({"F", "V", "1", "x"}, MaxNameLen)

\* A schema document that parses, with the keys the generator reads.
Doc(title, properties, required, eventuallyRequired) ==
    [json |-> "ok", title |-> title, properties |-> properties,
     required |-> required, eventuallyRequired |-> eventuallyRequired]

Absent == [present |-> FALSE, items |-> <<>>]
NoProperties == [present |-> FALSE, map |-> <<>>]
TitleOnly(title) == Doc(title, NoProperties, Absent, Absent)

AJson == <<"a">> \o DotJson
BJson == <<"b">> \o DotJson
NotesTxt == <<"n", ".", "t", "x", "t">>

\* The files a version directory may hold: schema documents and one other file.
DirFiles ==
    {[name |-> n, text |-> TitleOnly(t)] : n \in {AJson, BJson}, t \in Titles}
        \cup {[name |-> NotesTxt, text |-> [json |-> "malformed"]]}

DistinctNames(listing) ==
    \A i, j \in 1..Len(listing) : listing[i].name = listing[j].name => i = j

RECURSIVE SeqsUpTo(_, _)
\* The sequences over S of length 0..n.
SeqsUpTo(S, n) ==
    IF n = 0 THEN {<<>>}
    ELSE LET shorter == SeqsUpTo(S, n - 1)
         IN  shorter \cup {Append(s, x) : s \in shorter, x \in S}

Listings(n) == {l \in SeqsUpTo(DirFiles, n) : l # <<>> /\ DistinctNames(l)}

NoOrigin == [set |-> FALSE, dir |-> <<>>, title |-> <<>>]

\* One version directory with any listing, and possibly a sibling directory.
NamingTrees ==
    {d :> l : d \in VersionDirs, l \in Listings(MaxListing)}
        \cup {(d :> l) @@ (e :> m) : d \in VersionDirs, l \in Listings(MaxListing),
                                   e \in VersionDirs, m \in Listings(1)}

SampleTree ==
    (<<"v", "1">> :> <<[name |-> AJson, text |-> TitleOnly(<<"F">>)]>>)

IdleNaming == struct = <<>> /\ origin = NoOrigin /\ found = Pending
IdleStruct == struct_name = <<>> /\ scanned = Pending
NoField == <<>>
NoSchema == [url |-> <<>>]
IdleCommon == union_types = <<>> /\ common = Pending
IdleUnion == union_spec = <<>> /\ emitted = Pending /\ value = {} /\ outcome = Pending
IdleRead == files = <<>> /\ schemas = Pending /\ module = Pending
NoArgs == [generator |-> None]
NoException == [err |-> "none"]
IdleRun ==
    /\ args = NoArgs
    /\ pc = "idle"
    /\ rendered = Pending
    /\ raised = NoException
    /\ disk = <<>>
    /\ stdout = <<>>
    /\ stderr = <<>>
    /\ writes = 0
    /\ exit_status = "running"
    /\ runs = 0
IdleGetters ==
    /\ schema = NoSchema
    /\ spec = <<>>
    /\ field = NoField
    /\ resolved = Pending
    /\ getters = Pending

InitNaming ==
    /\ file = <<>>
    /\ IdleRead
    /\ IdleRun
    /\ IdleStruct
    /\ IdleGetters
    /\ IdleCommon
    /\ IdleUnion
    /\ origin = NoOrigin
    /\ found = Pending
    /\ \/ package \in NamingTrees /\ struct = <<>>
       \/ package = SampleTree /\ struct \in TypeNames

\* Schema.__init__ on a stored document gives the type name (line 38).
NameSchema ==
    /\ \E d \in DOMAIN package : \E i \in 1..Len(package[d]) :
           LET f == package[d][i]
               made == Schema(<<PackageName, d, f.name>>, f.text)
           IN  /\ endswith(f.name, DotJson)
               /\ made.err = "none"
               /\ struct' = made.value.golang_title
               /\ origin' = [set |-> TRUE, dir |-> d, title |-> f.text.title]
    /\ found' = Pending
    /\ UNCHANGED <<repoVars, structVars, getterVars, commonVars, unionVars, readVars, runVars>>

FindSchema ==
    /\ struct # <<>>
    /\ found = Pending
    /\ found' = find_schema(package, struct)
    /\ UNCHANGED <<repoVars, struct, origin, structVars, getterVars, commonVars, unionVars, readVars, runVars>>

NextNaming == NameSchema \/ FindSchema

SpecNaming == InitNaming /\ [][NextNaming]_vars

-----------------------------------------------------------------------------
(* The struct introspector on its own *)

\* The most lines of a go file.
MaxLines == 4

Int == <<"i", "n", "t">>
TargetV1 == <<"T", "V", "1">>
OtherV1 == <<"O", "V", "1">>

TypeLine(name) == Line("", "type", name, <<>>, "none", "")
CloseLine == Line("", "}", <<>>, <<>>, "none", "")
BlankLine == Line("", "", <<>>, <<>>, "none", "")
CommentLine == Line("\t", "//", <<>>, <<>>, "none", "")
UnionLine(fname, type) == Line("\t", "field", fname, type, "union", "")
JsonLine(fname, type, tag) == Line("\t", "field", fname, type, "json", tag)
\* An embedded struct or an untagged field.
UntaggedLine(fname, type) == Line("\t", "field", fname, type, "none", "")

GoLines ==
    {TypeLine(TargetV1), TypeLine(OtherV1), CloseLine, BlankLine, CommentLine,
     UnionLine(<<"U">>, <<"*">> \o OtherV1),
     JsonLine(<<"A">>, Int, "a"), JsonLine(<<"B">>, <<"*">> \o Int, "b"),
     UntaggedLine(<<"E">>, Int)}

InitStruct ==
    /\ package = <<>>
    /\ IdleRead
    /\ IdleRun
    /\ IdleNaming
    /\ IdleGetters
    /\ IdleCommon
    /\ IdleUnion
    /\ file \in SeqsUpTo(GoLines, MaxLines)
    /\ struct_name = TargetV1
    /\ scanned = Pending

FindStruct ==
    /\ scanned = Pending
    /\ scanned' = find_struct(file, struct_name)
    /\ UNCHANGED <<repoVars, namingVars, struct_name, getterVars, commonVars, unionVars, readVars, runVars>>

NextStruct == FindStruct

SpecStruct == InitStruct /\ [][NextStruct]_vars

-----------------------------------------------------------------------------
(* The type resolver and the getters of one struct *)

\* The most pointer qualifiers of a declared type.
MaxPointerDepth == 2

RECURSIVE Stars(_)
Stars(n) == IF n = 0 THEN <<>> ELSE <<"*">> \o Stars(n - 1)

DeclaredTypes == {Stars(n) \o Int : n \in 0..MaxPointerDepth}

\* What a schema may say of one tag: true, or an object with or without a
\* default, which may be null.
Props ==
    {[json |-> "true", default |-> "absent"]}
        \cup {[json |-> "object", default |-> d] : d \in {"absent", "null", "anon"}}

Tags == {"a", "b"}

PropertyMaps ==
    {<<>>} \cup {t :> p : t \in Tags, p \in Props}
           \cup {("a" :> p) @@ ("b" :> q) : p \in Props, q \in Props}

ListEntries(tag) ==
    {Absent, [present |-> TRUE, items |-> <<>>], [present |-> TRUE, items |-> <<tag>>]}

\* The documents of the struct's schema: any properties, or none at all; and
\* any pair of `required` and `eventuallyRequired`.
WidgetDocs ==
    {Doc(<<"W">>, NoProperties, Absent, Absent)}
        \cup {Doc(<<"W">>, [present |-> TRUE, map |-> m], Absent, Absent) :
                 m \in PropertyMaps}
        \cup {Doc(<<"W">>, [present |-> TRUE, map |-> <<>>], r, e) :
                 r \in ListEntries("a"), e \in ListEntries("b")}

WidgetUrl == <<PackageName, <<"v", "1">>, <<"w">> \o DotJson>>

FieldSpecs ==
    {<<<<"A">>, t, "a">> : t \in DeclaredTypes}
        \cup {<<<<"B">>, t, "b">> : t \in DeclaredTypes}

DistinctFields(fields) ==
    \A i, j \in 1..Len(fields) : fields[i][1] = fields[j][1] => i = j

InitGetters ==
    /\ package = <<>>
    /\ IdleRead
    /\ IdleRun
    /\ file = <<>>
    /\ IdleNaming
    /\ IdleStruct
    /\ IdleCommon
    /\ IdleUnion
    /\ \E d \in WidgetDocs : schema = Schema(WidgetUrl, d).value
    /\ spec \in {fs \in SeqsUpTo(FieldSpecs, 2) : DistinctFields(fs)}
    /\ field = NoField
    /\ resolved = Pending
    /\ getters = Pending

GetDefaultedType ==
    /\ \E i \in 1..Len(spec) :
           /\ field' = spec[i]
           /\ resolved' = get_defaulted_type(schema, spec[i][3], spec[i][2])
    /\ getters' = Pending
    /\ UNCHANGED <<repoVars, namingVars, structVars, schema, spec, commonVars, unionVars, readVars, runVars>>

GoGetters ==
    /\ getters' = go_getters(schema, spec)
    /\ field' = NoField
    /\ resolved' = Pending
    /\ UNCHANGED <<repoVars, namingVars, structVars, schema, spec, commonVars, unionVars, readVars, runVars>>

NextGetters == GetDefaultedType \/ GoGetters

SpecGetters == InitGetters /\ [][NextGetters]_vars

-----------------------------------------------------------------------------
(* A union struct and its variants *)

\* The most variants of a union.
MaxVariants == 2

VariantLetters == <<"P", "Q", "R", "S">>
VariantType(i) == <<VariantLetters[i], "V", "1">>

NameAx == <<"A", "x">>
NameB == <<"B">>

\* How a variant declares one member: its declared type, and whether its
\* schema gives the member a default.
Declarations ==
    {[type |-> t, default |-> d] : t \in {Int, <<"*">> \o Int}, d \in BOOLEAN}

\* A variant: a plain struct with any of the members B and Ax, a struct that
\* is itself a union, or a struct whose schema is missing. (The runs of the
\* generator below add variants with a union and a plain field, with an
\* untagged field and with a schema file that does not parse.)
Variants ==
    {[kind |-> "plain", members |-> m] :
        m \in {<<>>} \cup {NameB :> d : d \in Declarations}
                     \cup {NameAx :> d : d \in Declarations}
                     \cup {(NameB :> d) @@ (NameAx :> e) :
                              d \in Declarations, e \in Declarations}}
        \cup {[kind |-> "union", members |-> <<>>],
              [kind |-> "no schema", members |-> <<>>]}

TagOf(name) == IF name = NameB THEN "b" ELSE "a"
DeclaredOrder == <<NameB, NameAx>>

\* The struct definition of variant i in the go file.
VariantLines(i, v) ==
    <<TypeLine(VariantType(i))>>
        \o (IF v.kind = "union"
            THEN <<UnionLine(<<"U">>, <<"*">> \o OtherV1)>>
            ELSE IF v.kind = "mixed"
            THEN <<UnionLine(<<"U">>, <<"*">> \o VariantType(IF i = 1 THEN 2 ELSE 1)),
                   JsonLine(NameB, Int, "b")>>
            ELSE IF v.kind = "untagged"
            THEN <<UntaggedLine(NameB, Int)>>
            ELSE [k \in 1..Len(SelectSeq(DeclaredOrder, LAMBDA n : n \in DOMAIN v.members)) |->
                     LET n == SelectSeq(DeclaredOrder, LAMBDA m : m \in DOMAIN v.members)[k]
                     IN  JsonLine(n, v.members[n].type, TagOf(n))])
        \o <<CommentLine, CloseLine, BlankLine>>

\* The schema document of variant i.
VariantDoc(i, v) ==
    Doc(<<VariantLetters[i]>>,
        [present |-> TRUE,
         map |-> [t \in {TagOf(n) : n \in DOMAIN v.members} |->
                     LET n == CHOOSE n \in DOMAIN v.members : TagOf(n) = t
                     IN  [json |-> "object",
                          default |-> IF v.members[n].default THEN "anon" ELSE "absent"]]],
        Absent, Absent)

RECURSIVE GoFile(_, _)
GoFile(vs, i) == IF i > Len(vs) THEN <<>> ELSE VariantLines(i, vs[i]) \o GoFile(vs, i + 1)

RECURSIVE SchemaFiles(_, _)
SchemaFiles(vs, i) ==
    IF i > Len(vs) THEN <<>>
    ELSE (IF vs[i].kind = "no schema" THEN <<>>
          ELSE <<[name |-> <<VariantLetters[i]>> \o DotJson,
                  text |-> IF vs[i].kind = "malformed"
                           THEN [json |-> "malformed"]
                           ELSE VariantDoc(i, vs[i])]>>)
             \o SchemaFiles(vs, i + 1)

SchemaTree(vs) == <<"v", "1">> :> SchemaFiles(vs, 1)

VariantLists == {vs \in SeqsUpTo(Variants, MaxVariants) : vs # <<>>}

InitCommon ==
    /\ IdleNaming
    /\ IdleRead
    /\ IdleRun
    /\ IdleStruct
    /\ IdleGetters
    /\ IdleUnion
    /\ \E vs \in VariantLists :
           /\ file = GoFile(vs, 1)
           /\ package = SchemaTree(vs)
           /\ union_types = [i \in 1..Len(vs) |-> VariantType(i)]
    /\ common = Pending

GetUnionCommonMembers ==
    /\ common = Pending
    /\ common' = get_union_common_members(file, package, union_types)
    /\ UNCHANGED <<repoVars, namingVars, structVars, getterVars, union_types, unionVars,
                   readVars, runVars>>

NextCommon == GetUnionCommonMembers

SpecCommon == InitCommon /\ [][NextCommon]_vars

\* The variants of the union struct whose methods are emitted.
PlainB == [kind |-> "plain", members |-> NameB :> [type |-> Int, default |-> FALSE]]
PlainBoth ==
    [kind |-> "plain",
     members |-> (NameB :> [type |-> <<"*">> \o Int, default |-> TRUE])
                     @@ (NameAx :> [type |-> Int, default |-> FALSE])]
SampleVariants == {PlainB, PlainBoth, [kind |-> "union", members |-> <<>>]}

UnionField(i) == <<<<"M", VariantLetters[i]>>, <<"*">> \o VariantType(i)>>

InitUnion ==
    /\ IdleNaming
    /\ IdleRead
    /\ IdleRun
    /\ IdleStruct
    /\ IdleGetters
    /\ IdleCommon
    /\ \E vs \in [1..MaxVariants -> SampleVariants] :
           /\ file = GoFile(vs, 1)
           /\ package = SchemaTree(vs)
    /\ \E order \in SeqsUpTo(1..MaxVariants, MaxVariants) :
           /\ \A i, j \in 1..Len(order) : order[i] = order[j] => i = j
           /\ union_spec = [k \in 1..Len(order) |-> UnionField(order[k])]
    /\ value \in SUBSET {union_spec[k][1] : k \in 1..Len(union_spec)}
    /\ emitted = Pending
    /\ outcome = Pending

GoUnions ==
    /\ emitted = Pending
    /\ emitted' = go_unions(file, package, union_spec)
    /\ UNCHANGED <<repoVars, namingVars, structVars, getterVars, commonVars,
                   union_spec, value, outcome, readVars, runVars>>

\* A caller of the generated code calls GetUnionMember() on value.
CallGetUnionMember ==
    /\ emitted # Pending
    /\ emitted.err = "none"
    /\ emitted.value # <<>>
    /\ outcome = Pending
    /\ outcome' = go_call(emitted.value[1].body, 1, value)
    /\ UNCHANGED <<repoVars, namingVars, structVars, getterVars, commonVars,
                   union_spec, value, emitted, readVars, runVars>>

NextUnion == GoUnions \/ CallGetUnionMember

SpecUnion == InitUnion /\ [][NextUnion]_vars

-----------------------------------------------------------------------------
(* The schema loader and the aggregate module *)

\* The most schema files of the tree.
MaxSchemaFiles == 3

SchemaPaths ==
    {<<PackageName, <<"v", "1">>, AJson>>, <<PackageName, <<"v", "1">>, BJson>>,
     <<PackageName, <<"v", "2">>, AJson>>, <<PackageName, <<"v", "1", "0">>, AJson>>}

SchemaTexts == {TitleOnly(<<"F">>), TitleOnly(<<"G">>), [json |-> "malformed"]}

\* The tree that holds the files of paths with the texts of text.
TreeOf(paths, text) ==
    [d \in {p[2] : p \in paths} |->
        LET names == {p[3] : p \in {q \in paths : q[2] = d}}
            PackNames == IF AJson \in names /\ BJson \in names THEN <<BJson, AJson>>
                         ELSE IF AJson \in names THEN <<AJson>> ELSE <<BJson>>
        IN  [i \in 1..Len(PackNames) |->
                [name |-> PackNames[i], text |-> text[<<PackageName, d, PackNames[i]>>]]]]

Orderings(paths) ==
    {o \in SeqsUpTo(paths, Cardinality(paths)) :
        Len(o) = Cardinality(paths) /\ \A i, j \in 1..Len(o) : o[i] = o[j] => i = j}

InitRead ==
    /\ IdleNaming
    /\ IdleRun
    /\ IdleStruct
    /\ IdleGetters
    /\ IdleCommon
    /\ IdleUnion
    /\ file = <<>>
    /\ \E paths \in {ps \in SUBSET SchemaPaths : ps # {} /\ Cardinality(ps) <= MaxSchemaFiles} :
           /\ \E text \in [paths -> SchemaTexts] : package = TreeOf(paths, text)
           /\ files \in Orderings(paths)
    /\ schemas = Pending
    /\ module = Pending

ReadSchemas ==
    /\ schemas = Pending
    /\ schemas' = read_schemas(package, files)
    /\ UNCHANGED <<repoVars, namingVars, structVars, getterVars, commonVars, unionVars,
                   files, module, runVars>>

GenGoSchemasPackage ==
    /\ schemas # Pending
    /\ schemas.err = "none"
    /\ module = Pending
    /\ module' = gen_go_schemas_package(schemas.value)
    /\ UNCHANGED <<repoVars, namingVars, structVars, getterVars, commonVars, unionVars,
                   files, schemas, runVars>>

NextRead == ReadSchemas \/ GenGoSchemasPackage

SpecRead == InitRead /\ [][NextRead]_vars

-----------------------------------------------------------------------------
(* Runs of the generators *)

\* The most runs of the generator over the same inputs.
MaxRuns == 2

RootV1 == <<"U", "V", "1">>

\* The variants of the go file the generators run on.
RunVariants ==
    {PlainB, PlainBoth,
     [kind |-> "plain", members |-> NameB :> [type |-> <<"*">> \o Int, default |-> FALSE]],
     [kind |-> "plain", members |-> NameB :> [type |-> Int, default |-> TRUE]],
     [kind |-> "plain", members |-> NameB :> [type |-> <<"*", "*">> \o Int, default |-> TRUE]],
     [kind |-> "union", members |-> <<>>],
     [kind |-> "mixed", members |-> <<>>],
     [kind |-> "untagged", members |-> <<>>],
     [kind |-> "malformed", members |-> <<>>],
     [kind |-> "no schema", members |-> <<>>]}

\* The go file: a directive, the variants, the union struct over them, a
\* struct without a version in its name and a struct that is never closed.
RunFile(vs) ==
    <<Line("", "//", <<>>, <<>>, "none", "")>>
        \o GoFile(vs, 1)
        \o <<TypeLine(RootV1)>>
        \o [i \in 1..Len(vs) |-> UnionLine(UnionField(i)[1], UnionField(i)[2])]
        \o <<CloseLine, BlankLine, TypeLine(<<"W">>), CloseLine, TypeLine(<<"X", "V", "1">>)>>

RunTree(vs) ==
    <<"v", "1">> :> (SchemaFiles(vs, 1)
                         \o <<[name |-> <<"U">> \o DotJson, text |-> TitleOnly(<<"U">>)]>>)

OutPath == <<"o", "u", "t">>
Stale == join_lines(<<Fmt("// stale", <<>>)>>)

Destinations(lines) ==
    {Zgen \o camel_to_snake(lines[k].name) \o DotGo :
        k \in {j \in 1..Len(lines) : lines[j].head = "type"}} \cup {OutPath}

RunArgs(lines) ==
    {[generator |-> "go-struct", line |-> l, output |-> NoOutput] : l \in 0..Len(lines)}
        \cup {[generator |-> g, line |-> 0, output |-> o] :
                 g \in {"python", "go-root", None}, o \in {NoOutput, Some(OutPath)}}

InitRun ==
    /\ IdleNaming
    /\ IdleStruct
    /\ IdleGetters
    /\ IdleCommon
    /\ IdleUnion
    /\ IdleRead
    /\ \E vs \in [1..2 -> RunVariants] :
           /\ file = RunFile(vs)
           /\ package = RunTree(vs)
    /\ args \in RunArgs(file)
    /\ disk \in {<<>>, [d \in Destinations(file) |-> Stale]}
    /\ pc = "main"
    /\ rendered = Pending
    /\ raised = NoException
    /\ stdout = <<>>
    /\ stderr = <<>>
    /\ writes = 0
    /\ exit_status = "running"
    /\ runs = 0

\* A stage returns and the run goes on at next, or the stage raises.
Goes(result, next) ==
    /\ pc' = IF result.err = "none" THEN next ELSE "except"
    /\ raised' = IF result.err = "none" THEN raised ELSE result

\* go_struct_main up to struct = next_struct_name(file, line)
GoStructMain ==
    /\ pc = "main"
    /\ args.generator = "go-struct"
    /\ LET name == next_struct_name(file, args.line)
       IN  /\ struct_name' = IF name.err = "none" THEN name.value ELSE struct_name
           /\ Goes(name, "find_struct")
    /\ UNCHANGED <<fixedVars, found, scanned, getters, emitted, files, schemas, rendered>>

StageFindStruct ==
    /\ pc = "find_struct"
    /\ scanned' = find_struct(file, struct_name)
    /\ Goes(scanned', "check_fields")
    /\ UNCHANGED <<fixedVars, found, struct_name, getters, emitted, files, schemas, rendered>>

StageCheckFields ==
    /\ pc = "check_fields"
    /\ Goes(check_fields(scanned.value), "find_schema")
    /\ UNCHANGED <<fixedVars, found, struct_name, scanned, getters, emitted, files, schemas,
                   rendered>>

StageFindSchema ==
    /\ pc = "find_schema"
    /\ found' = find_schema(package, struct_name)
    /\ Goes(found', "go_getters")
    /\ UNCHANGED <<fixedVars, struct_name, scanned, getters, emitted, files, schemas,
                   rendered>>

StageGoGetters ==
    /\ pc = "go_getters"
    /\ getters' = go_getters(found.value, scanned.value.field_spec)
    /\ Goes(getters', "go_unions")
    /\ UNCHANGED <<fixedVars, found, struct_name, scanned, emitted, files, schemas, rendered>>

StageGoUnions ==
    /\ pc = "go_unions"
    /\ emitted' = go_unions(file, package, scanned.value.union_spec)
    /\ Goes(emitted', "return")
    /\ UNCHANGED <<fixedVars, found, struct_name, scanned, getters, files, schemas, rendered>>

\* gen_go_struct returns filename and lines to go_struct_main.
GenGoStructReturns ==
    /\ pc = "return"
    /\ LET made == go_struct_lines(struct_name, path_text(found.value.url), <<>>,
                                   getters.value, emitted.value)
       IN  rendered' = [output |-> Some(made.filename), lines |-> made.lines]
    /\ pc' = "write"
    /\ UNCHANGED <<fixedVars, found, struct_name, scanned, getters, emitted, files, schemas,
                   raised>>

\* python_main and go_root_main up to files = list_files(package)
ListFiles ==
    /\ pc = "main"
    /\ args.generator \in {"python", "go-root"}
    /\ files' = list_files(package)
    /\ pc' = "read_schemas"
    /\ UNCHANGED <<fixedVars, found, struct_name, scanned, getters, emitted, schemas,
                   rendered, raised>>

StageReadSchemas ==
    /\ pc = "read_schemas"
    /\ schemas' = read_schemas(package, files)
    /\ Goes(schemas', "gen")
    /\ UNCHANGED <<fixedVars, found, struct_name, scanned, getters, emitted, files, rendered>>

PythonMain ==
    /\ pc = "gen"
    /\ args.generator = "python"
    /\ rendered' = [output |-> args.output, lines |-> gen_python(schemas.value)]
    /\ pc' = "write"
    /\ UNCHANGED <<fixedVars, found, struct_name, scanned, getters, emitted, files, schemas,
                   raised>>

GoRootMain ==
    /\ pc = "gen"
    /\ args.generator = "go-root"
    /\ rendered' = [output |-> args.output, lines |-> gen_go_schemas_package(schemas.value)]
    /\ pc' = "write"
    /\ UNCHANGED <<fixedVars, found, struct_name, scanned, getters, emitted, files, schemas,
                   raised>>

\* raise ValueError(f"unrecognized generator: {generator}")
UnrecognizedGenerator ==
    /\ pc = "main"
    /\ args.generator \notin {"python", "go-struct", "go-root"}
    /\ Goes(Raise("ValueError", "unrecognized generator"), "main")
    /\ UNCHANGED <<fixedVars, found, struct_name, scanned, getters, emitted, files, schemas,
                   rendered>>

MaybeWriteOutput ==
    /\ pc = "write"
    /\ LET world == maybe_write_output(rendered.lines, rendered.output,
                                       World(disk, stdout, writes))
       IN  /\ disk' = world.disk
           /\ stdout' = world.stdout
           /\ writes' = world.writes
    /\ pc' = "done"
    /\ UNCHANGED <<repoVars, namingVars, structVars, getterVars, commonVars, unionVars,
                   readVars, args, rendered, raised, stderr, exit_status, runs>>

\* except AssertionError as e: print(e, file=sys.stderr); sys.exit(1)
ExceptAssertionError ==
    /\ pc = "except"
    /\ raised.err = "AssertionError"
    /\ stderr' = Append(stderr, raised.msg)
    /\ exit_status' = "exit 1"
    /\ pc' = "exited"
    /\ UNCHANGED <<repoVars, namingVars, structVars, getterVars, commonVars, unionVars,
                   readVars, args, rendered, raised, disk, stdout, writes, runs>>

\* Any other exception leaves __main__: the interpreter prints the traceback
\* and exits with status 1.
Uncaught ==
    /\ pc = "except"
    /\ raised.err # "AssertionError"
    /\ stderr' = Append(stderr, "Traceback (most recent call last)")
    /\ exit_status' = "exit 1"
    /\ pc' = "exited"
    /\ UNCHANGED <<repoVars, namingVars, structVars, getterVars, commonVars, unionVars,
                   readVars, args, rendered, raised, disk, stdout, writes, runs>>

ExitNormally ==
    /\ pc = "done"
    /\ exit_status' = "exit 0"
    /\ pc' = "exited"
    /\ UNCHANGED <<repoVars, namingVars, structVars, getterVars, commonVars, unionVars,
                   readVars, args, rendered, raised, disk, stdout, stderr, writes, runs>>

\* The same command is run again over the same inputs.
RunAgain ==
    /\ pc = "exited"
    /\ runs + 1 < MaxRuns
    /\ runs' = runs + 1
    /\ pc' = "main"
    /\ rendered' = Pending
    /\ raised' = NoException
    /\ exit_status' = "running"
    /\ struct_name' = <<>>
    /\ scanned' = Pending
    /\ found' = Pending
    /\ getters' = Pending
    /\ emitted' = Pending
    /\ files' = <<>>
    /\ schemas' = Pending
    /\ UNCHANGED <<repoVars, struct, origin, schema, spec, field, resolved, commonVars,
                   union_spec, value, outcome, module, args, disk, stdout, stderr, writes>>

NextRun ==
    \/ GoStructMain
    \/ StageFindStruct
    \/ StageCheckFields
    \/ StageFindSchema
    \/ StageGoGetters
    \/ StageGoUnions
    \/ GenGoStructReturns
    \/ ListFiles
    \/ StageReadSchemas
    \/ PythonMain
    \/ GoRootMain
    \/ UnrecognizedGenerator
    \/ MaybeWriteOutput
    \/ ExceptAssertionError
    \/ Uncaught
    \/ ExitNormally
    \/ RunAgain

SpecRun == InitRun /\ [][NextRun]_vars

-----------------------------------------------------------------------------
(* Naming convention *)

\* A version directory named v<d> for one digit d.
SingleDigitVersion(dir) == Len(dir) = 2 /\ dir[1] = "v" /\ dir[2] \in Digits

\* The type name of origin resolved back to a schema of origin's title, found
\* in origin's directory.
RoundTrips ==
    /\ struct = origin.title \o <<"V">> \o Tail(origin.dir)
    /\ found.err = "none"
    /\ found.value.text.title = origin.title
    /\ version(found.value.url) = origin.dir

\* C5 as stated: for every title and every version directory v<digits>,
\* multi-digit ones included, the schema's type name is the title followed by
\* the upper-cased version, and find_schema of that type name searches that
\* directory and returns the schema of that title.
C5_RoundTripAnyVersion ==
    (origin.set /\ found # Pending) => RoundTrips

\* C5 as amended: the round trip holds for the version directories v0..v9,
\* whose upper-cased name is the last two characters of the type name.
C5_RoundTripSingleDigit ==
    (origin.set /\ found # Pending /\ SingleDigitVersion(origin.dir)) => RoundTrips

C5_Witness ==
    /\ origin.set
    /\ found # Pending
    /\ SingleDigitVersion(origin.dir)
    /\ Cardinality(DOMAIN package) = 2
    /\ found.err = "none"

\* The name's final characters are V followed by one or more digits.
EndsInVersionSuffix(s) ==
    \E i \in 1..Len(s) :
        /\ s[i] = "V"
        /\ i < Len(s)
        /\ \A j \in (i + 1)..Len(s) : s[j] \in Digits

\* C6: find_schema fails with the convention-violation error, before any
\* directory is consulted, for every type name that does not end in V<digits>.
C6_RejectsBadSuffix ==
    (found # Pending /\ ~EndsInVersionSuffix(struct))
        => (found.err = "AssertionError"
            /\ found.msg = "is not a valid schema type name")

-----------------------------------------------------------------------------
(* The line scanner *)

Least(S) == CHOOSE i \in S : \A j \in S : i <= j

\* The lines that open the definition of struct_name, and the first of them.
Opening == {i \in 1..Len(file) : opens_struct(file[i], struct_name)}
\* The closing delimiters after the opening line.
Closing == {j \in 1..Len(file) : j > Least(Opening) /\ is_close(file[j])}
\* The body: the lines after the opening line, up to the first closing
\* delimiter or the end of the file.
BodyEnd == IF Closing = {} THEN Len(file) ELSE Least(Closing) - 1
Body == SubSeq(file, Least(Opening) + 1, BodyEnd)
Skipped(line) == is_blank(line) \/ is_comment(line)
Kept(line) == ~Skipped(line)
Unclassified(line) == Kept(line) /\ ~union_match(line) /\ ~json_match(line)
PlainOnly(line) == json_match(line) /\ ~union_match(line)

FieldSpecOf(lines) == [i \in 1..Len(lines) |-> <<lines[i].name, lines[i].type, lines[i].tag>>]
UnionSpecOf(lines) == [i \in 1..Len(lines) |-> <<lines[i].name, lines[i].type>>]

\* C10: find_struct collects only after the opening line of struct_name, stops
\* at the first closing delimiter after it, skips only blank and comment lines,
\* puts every other body line, in order, into exactly one of its two lists, and
\* fails on an unclassifiable body line, a missing definition or a missing end.
C10_LineScanner ==
    scanned # Pending =>
        IF Opening = {}
        THEN scanned.err = "AssertionError"
        ELSE IF \E i \in 1..Len(Body) : Unclassified(Body[i])
        THEN scanned.err = "AssertionError" /\ scanned.msg = "unsure how to handle line"
        ELSE IF Closing = {}
        THEN scanned.err = "AssertionError"
        ELSE /\ scanned.err = "none"
             /\ scanned.value.union_spec = UnionSpecOf(SelectSeq(Body, union_match))
             /\ scanned.value.field_spec = FieldSpecOf(SelectSeq(Body, PlainOnly))
             /\ Len(scanned.value.union_spec) + Len(scanned.value.field_spec)
                    = Len(SelectSeq(Body, Kept))

C10_Witness ==
    /\ scanned # Pending
    /\ scanned.err = "none"
    /\ Len(scanned.value.field_spec) = 2
    /\ scanned.value.field_spec[1][1] = <<"B">>

-----------------------------------------------------------------------------
(* Defaults and declared types *)

RECURSIVE PointerDepth(_)
\* The number of pointer qualifiers a type begins with.
PointerDepth(type) ==
    IF type # <<>> /\ Head(type) = "*" THEN 1 + PointerDepth(Tail(type)) ELSE 0

\* The schema's property for tag, when its document has one.
HasProperty(tag) ==
    schema.schema.properties.present /\ tag \in DOMAIN schema.schema.properties.map

\* The schema's property for tag declares a default value; json's null is
\* the absence of one (line 241: prop.get("default") is None for both).
DeclaresDefault(tag) ==
    /\ HasProperty(tag)
    /\ schema.schema.properties.map[tag].default \notin {"absent", "null"}

\* C2: when the schema's property for the tag declares a default value,
\* get_defaulted_type succeeds exactly when the declared type begins with one
\* pointer qualifier, fails with "must be a pointer" for none and with "must
\* not be a double pointer" for two or more, and on success returns the
\* declared type without that one qualifier.
C2_DefaultNeedsOnePointer ==
    (field # NoField /\ resolved # Pending /\ DeclaresDefault(field[3])) =>
        /\ resolved.err = "none" <=> PointerDepth(field[2]) = 1
        /\ PointerDepth(field[2]) = 0 =>
               /\ resolved.err = "AssertionError"
               /\ resolved.msg = "must be a pointer since it can be defaulted"
        /\ PointerDepth(field[2]) >= 2 =>
               /\ resolved.err = "AssertionError"
               /\ resolved.msg = "must not be a double pointer"
        /\ resolved.err = "none" =>
               /\ <<"*">> \o resolved.value.type = field[2]
               /\ resolved.value.default # None

C2_Witness ==
    /\ field # NoField
    /\ resolved # Pending
    /\ DeclaresDefault(field[3])
    /\ PointerDepth(field[2]) = 1
    /\ resolved.err = "none"

\* The tag has no schema property, a true-valued one, or one without a
\* default; the document need not declare properties at all.
NoDefault(tag) == ~DeclaresDefault(tag)

\* C3: for every plain field whose tag has no property, a true property or a
\* property without a default, in any document the loader accepts, type
\* resolution succeeds and the getter emitted is the transparent one, returning
\* the declared type unchanged.
C3_TransparentWithoutDefault ==
    /\ (field # NoField /\ resolved # Pending /\ NoDefault(field[3])) =>
           /\ resolved.err = "none"
           /\ resolved.value.type = field[2]
           /\ resolved.value.default = None
    /\ (getters # Pending /\ \A i \in 1..Len(spec) : NoDefault(spec[i][3])) =>
           /\ getters.err = "none"
           /\ Len(getters.value) = Len(spec)
           /\ \A i \in 1..Len(spec) :
                  getters.value[i] = transparent_getter(spec[i][1], spec[i][2])

-----------------------------------------------------------------------------
(* Unions *)

\* The union fields of value that are not nil, by their place in union_spec.
Populated == {k \in 1..Len(union_spec) : union_spec[k][1] \in value}

\* C1: the generated GetUnionMember checks the union fields in declared order
\* and returns the identity of the first populated one, not an empty value,
\* and panics with "no union member defined" exactly when none is populated.
C1_ReturnsFirstPopulated ==
    outcome # Pending =>
        IF Populated # {}
        THEN /\ outcome.kind = "returns member"
             /\ outcome.member = union_spec[Least(Populated)][1]
        ELSE /\ outcome.kind = "panic"
             /\ outcome.msg = "no union member defined"

\* What the variant of type name t declares, as the introspector, the schema
\* resolver and the type resolver give it.
VariantStruct(t) == find_struct(file, t)
VariantSchema(t) == find_schema(package, t)
VariantFields(t) ==
    {VariantStruct(t).value.field_spec[k] : k \in 1..Len(VariantStruct(t).value.field_spec)}
Effective(t, f) == get_defaulted_type(VariantSchema(t).value, f[3], f[2])
Resolves(t) ==
    /\ VariantSchema(t).err = "none"
    /\ VariantStruct(t).err = "none"
    /\ VariantStruct(t).value.union_spec = <<>>
    /\ \A f \in VariantFields(t) : Effective(t, f).err = "none"
FieldNames(t) == {f[1] : f \in VariantFields(t)}
EffectiveTypes(t, n) == {Effective(t, f).value.type : f \in {g \in VariantFields(t) : g[1] = n}}

UnionTypes == {union_types[i] : i \in 1..Len(union_types)}
\* The names that occur in every variant, and their effective types there.
Shared == {n \in FieldNames(union_types[1]) : \A t \in UnionTypes : n \in FieldNames(t)}
TypesOf(n) == UNION {EffectiveTypes(t, n) : t \in UnionTypes}

\* C4: over a non-empty list of variants that resolve, the result is exactly
\* the fields whose name occurs in every variant, each with its effective type,
\* sorted by name; and a shared name of differing effective types makes the
\* call fail with the type mismatch instead.
C4_CommonMembers ==
    (common # Pending /\ union_types # <<>> /\ \A t \in UnionTypes : Resolves(t)) =>
        IF \E n \in Shared : Cardinality(TypesOf(n)) # 1
        THEN /\ common.err = "AssertionError"
             /\ common.msg = "has multiple types among union members"
        ELSE /\ common.err = "none"
             /\ Len(common.value) = Cardinality(Shared)
             /\ {common.value[i] : i \in 1..Len(common.value)}
                    = {<<n, CHOOSE ty \in TypesOf(n) : TRUE>> : n \in Shared}
             /\ \A i, j \in 1..Len(common.value) :
                    i < j => str_less(common.value[i][1], common.value[j][1])

C4_Witness ==
    /\ common # Pending
    /\ common.err = "none"
    /\ Len(union_types) = 2
    /\ common.value = <<<<NameAx, Int>>, <<NameB, Int>>>>
    /\ VariantStruct(union_types[1]).value.field_spec[1][2] = <<"*">> \o Int

-----------------------------------------------------------------------------
(* Determinism of the loader *)

\* C8: read_schemas returns the schemas sorted by canonical url whatever the
\* order of the file list, so every permutation of the same files gives the
\* same aggregate module.
C8_OrderIndependent ==
    /\ (schemas # Pending /\ schemas.err = "none") =>
           /\ {schemas.value[i].url : i \in 1..Len(schemas.value)}
                  = {files[i] : i \in 1..Len(files)}
           /\ \A i, j \in 1..Len(schemas.value) :
                  i < j => str_less(path_text(schemas.value[i].url),
                                    path_text(schemas.value[j].url))
    /\ module # Pending =>
           \A other \in Orderings({files[i] : i \in 1..Len(files)}) :
               /\ read_schemas(package, other).err = "none"
               /\ gen_go_schemas_package(read_schemas(package, other).value) = module

C8_Witness ==
    /\ module # Pending
    /\ Len(files) = 3
    /\ path_text(files[1]) = path_text(<<PackageName, <<"v", "1", "0">>, AJson>>)
    /\ path_text(files[3]) = path_text(<<PackageName, <<"v", "1">>, AJson>>)

-----------------------------------------------------------------------------
(* The output writer and the failure of a run *)

\* C7: with a destination set, maybe_write_output leaves the destination
\* holding exactly the rendered text and opens it for writing only when it is
\* missing or holds something else; a run that repeats a run over the same
\* inputs writes nothing and leaves every file as it was.
C7_WritesOnlyChanges ==
    [][(pc = "write" /\ ~rendered.output.none) =>
           LET text == join_lines(rendered.lines)
               output == rendered.output.path
           IN  /\ output \in DOMAIN disk'
               /\ disk'[output] = text
               /\ \A other \in DOMAIN disk' \ {output} :
                      other \in DOMAIN disk /\ disk'[other] = disk[other]
               /\ writes' # writes => (output \notin DOMAIN disk \/ disk[output] # text)
               /\ writes' \in {writes, writes + 1}
               /\ runs > 0 => (writes' = writes /\ disk' = disk)]_vars

C7_Witness ==
    /\ runs = 1
    /\ pc = "exited"
    /\ exit_status = "exit 0"
    /\ args.generator = "go-struct"
    /\ writes = 1
    /\ Zgen \o <<"u", "v", "1">> \o DotGo \in DOMAIN disk

\* The defect of the inputs that makes a stage of the run fail, if any.
StageFailure ==
    IF args.generator \in {"python", "go-root"}
    THEN IF read_schemas(package, list_files(package)).err # "none"
         THEN "malformed schema" ELSE "none"
    ELSE IF args.generator # "go-struct" THEN "unrecognized generator"
    ELSE LET name == next_struct_name(file, args.line)
             found_struct == find_struct(file, name.value)
             found_schema == find_schema(package, name.value)
         IN  IF name.err # "none" THEN "no struct"
             ELSE IF found_struct.err # "none" THEN "missing or unclassifiable struct"
             ELSE IF found_struct.value.field_spec # <<>>
                         /\ found_struct.value.union_spec # <<>>
             THEN "plain and union fields"
             ELSE IF found_schema.err # "none" THEN "bad suffix or schema not found"
             ELSE IF go_getters(found_schema.value, found_struct.value.field_spec).err # "none"
             THEN "bad default"
             ELSE IF go_unions(file, package, found_struct.value.union_spec).err # "none"
             THEN "bad union"
             ELSE "none"

\* C9: when a stage of the run fails the process ends with a non-zero status,
\* maybe_write_output is never reached, and the files and stdout stay as
\* they were.
C9_AllOrNothing ==
    [][StageFailure # "none" =>
           /\ pc' # "write"
           /\ disk' = disk
           /\ stdout' = stdout
           /\ writes' = writes
           /\ rendered' = Pending
           /\ pc' = "exited" => exit_status' = "exit 1"]_vars

C9_Witness ==
    /\ pc = "exited"
    /\ exit_status = "exit 1"
    /\ raised.err = "AssertionError"
    /\ raised.msg = "detected nested union"
    /\ stderr = <<"detected nested union">>
    /\ disk # <<>>
    /\ writes = 0

-----------------------------------------------------------------------------
(* The required list *)

\* The list the schema of the struct declares under key, or no list.
Declared(entry) == entry.present

\* C11: the required value get_defaulted_type returns is the schema's
\* `required` list whenever the schema declares one, the empty list included;
\* `eventuallyRequired` is used only when `required` is absent.
C11_RequiredUnlessAbsent ==
    (resolved # Pending /\ resolved.err = "none") =>
        resolved.value.required =
            IF Declared(schema.schema.required)
            THEN schema.schema.required.items
            ELSE IF Declared(schema.schema.eventuallyRequired)
            THEN schema.schema.eventuallyRequired.items
            ELSE <<>>

=============================================================================
